---- MODULE Spec2Model ----
(***************************************************************************)
(* A model of gocoderio/easyfs: the map-backed in-memory file system       *)
(* MapFS (src/mapfs.go) and its wrapper EasyFS (src/easyfs.go).            *)
(*                                                                         *)
(* A Go string is a sequence of bytes (numbers), so that strings.Index,    *)
(* strings.HasPrefix, slicing and the byte-wise order < of sort.Slice are  *)
(* computed as the code computes them.  A *MapFile is a reference: Nil,    *)
(* the identity of a record of the heap, or Synth for the placeholder      *)
(* &MapFile{Mode: fs.ModeDir} that Open allocates and nothing can write.   *)
(* A MapFile is its Data and its Mode; ModTime and Sys are carried by no   *)
(* operation modelled here and are left out.  A FileMode is its ModeDir    *)
(* bit and its permission bits.                                            *)
(***************************************************************************)
EXTENDS Integers, Sequences, FiniteSets, TLC

VARIABLES
    fsys,     \* the MapFS: a function from its keys (strings) to *MapFile
    heap,     \* the MapFile records alive: identity -> [Data, Mode]
    handles,  \* the handles the caller holds: slot -> OpenMapFile, mapDir or NoHandle
    copied,   \* history: the last successful Copy, <<dst, src>>, while both keys keep that record
    scen,     \* history: how far the caller is in Create; Write; Seek(0, 0); Read,
              \* or what ReadDir returned since the Open of a directory
    last      \* history: the last operation called, its arguments and what it returned

vars == <<fsys, heap, handles, copied, scen, last>>

----------------------------------------------------------------------------
(* Bytes, strings and references *)

SLASH == 47
DOT == 46

\* fs.FileMode: the bit fs.ModeDir (1 << 31) and the permission bits
FileMode(dir, perm) == [Dir |-> dir, Perm |-> perm]
ModeDir == FileMode(TRUE, 0)
Nil == 0
Synth == -1

Root == <<DOT>>

Min(a, b) == IF a < b THEN a ELSE b

\* s[i:j] of Go: bytes i .. j-1, counted from 0
Slice(s, i, j) == SubSeq(s, i + 1, j)

\* strings.Index(s, string(c)): the first place of byte c in s, from 0, or -1
Index(s, c) ==
    IF \E i \in 1..Len(s) : s[i] = c
    THEN (CHOOSE i \in 1..Len(s) : s[i] = c /\ \A j \in 1..(i - 1) : s[j] # c) - 1
    ELSE -1

\* strings.LastIndex(s, string(c))
LastIndex(s, c) ==
    IF \E i \in 1..Len(s) : s[i] = c
    THEN (CHOOSE i \in 1..Len(s) : s[i] = c /\ \A j \in (i + 1)..Len(s) : s[j] # c) - 1
    ELSE -1

\* strings.HasPrefix(s, p)
HasPrefix(s, p) == Len(s) >= Len(p) /\ SubSeq(s, 1, Len(p)) = p

\* s < t of Go strings: byte-wise, a proper prefix first
StrLess(s, t) ==
    \E i \in 1..(Len(t)) :
        /\ i <= Len(s) + 1
        /\ \A j \in 1..(i - 1) : s[j] = t[j]
        /\ (i = Len(s) + 1 \/ s[i] < t[i])

\* fs.ValidPath(name): "." or slash-separated elements, none empty, "." or ".."
RECURSIVE ValidPath(_)
ValidPath(name) ==
    IF name = Root THEN TRUE
    ELSE LET i == IF Index(name, SLASH) < 0 THEN Len(name) ELSE Index(name, SLASH)
             elem == Slice(name, 0, i)
         IN  IF elem = <<>> \/ elem = <<DOT>> \/ elem = <<DOT, DOT>> THEN FALSE
             ELSE IF i = Len(name) THEN TRUE
             ELSE ValidPath(Slice(name, i + 1, Len(name)))

\* path.Base(name): the last element; trailing slashes dropped, "" gives "."
RECURSIVE Base(_)
Base(name) ==
    IF name = <<>> THEN Root
    ELSE IF name[Len(name)] = SLASH
         THEN IF Len(name) = 1 THEN <<SLASH>> ELSE Base(Slice(name, 0, Len(name) - 1))
         ELSE Slice(name, LastIndex(name, SLASH) + 1, Len(name))

\* name[0] == '/' ? name[1:] : name, the mutators' normalisation
StripSlash(name) == IF name[1] = SLASH THEN Slice(name, 1, Len(name)) ELSE name

\* a test of the mode that takes every record for a directory
IsDirMode_Always(mode) == TRUE
\* mode & fs.ModeDir != 0
IsDirMode(mode) == mode.Dir

\* fsys[name] of a Go map: the zero value nil for a key that is not there
Lookup(fs, name) == IF name \in DOMAIN fs THEN fs[name] ELSE Nil

\* &MapFile{Mode: fs.ModeDir}
SynthFile == [Data |-> <<>>, Mode |-> ModeDir]

\* *f for a non-nil f
Deref(hp, f) == IF f = Synth THEN SynthFile ELSE hp[f]

\* every order a range over a set can take
RECURSIVE Perms(_)
Perms(S) ==
    IF S = {} THEN {<<>>}
    ELSE UNION {{<<x>> \o p : p \in Perms(S \ {x})} : x \in S}

\* the elements of sequence s, as a set
Range(s) == {s[i] : i \in 1..Len(s)}

\* the strings of S in ascending order
RECURSIVE Ascending(_)
Ascending(S) ==
    IF S = {} THEN <<>>
    ELSE LET m == CHOOSE k \in S : \A j \in S : j = k \/ StrLess(k, j)
         IN  <<m>> \o Ascending(S \ {m})

----------------------------------------------------------------------------
(* MapFS.Open *)

\* sort.Slice(list, func(i, j) { return list[i].name < list[j].name }): insertion
\* of each element before the first one it is less than
RECURSIVE SortSlice(_)
SortInsert(sorted, e) ==
    LET k == IF \E i \in 1..Len(sorted) : StrLess(e.name, sorted[i].name)
             THEN CHOOSE i \in 1..Len(sorted) :
                      /\ StrLess(e.name, sorted[i].name)
                      /\ \A j \in 1..(i - 1) : ~StrLess(e.name, sorted[j].name)
             ELSE Len(sorted) + 1
    IN  SubSeq(sorted, 1, k - 1) \o <<e>> \o SubSeq(sorted, k, Len(sorted))
SortSlice(list) ==
    IF list = <<>> THEN <<>>
    ELSE SortInsert(SortSlice(SubSeq(list, 1, Len(list) - 1)), list[Len(list)])

\* the keys the scan of Open(name) takes as children of name
IsBelow(name, fname) ==
    IF name = Root THEN TRUE ELSE HasPrefix(fname, name \o <<SLASH>>)

\* felem: what follows the prefix name + "/" (for the root, the whole key)
Felem(name, fname) ==
    IF name = Root THEN fname ELSE Slice(fname, Len(name) + 1, Len(fname))

\* list = append(list, mapFileInfo{felem, f}): keys below name with no further slash
IsDirectChild(name, fname) ==
    /\ IsBelow(name, fname)
    /\ Index(Felem(name, fname), SLASH) < 0
    /\ (name = Root => fname # Root)

\* a scan that notes no name to synthesize
NeedNames_None(fs, name) == {}
\* need[felem[:i]] = true: the first element of the keys with a further slash
NeedNames(fs, name) ==
    {Slice(Felem(name, k), 0, Index(Felem(name, k), SLASH)) :
        k \in {x \in DOMAIN fs : IsBelow(name, x) /\ Index(Felem(name, x), SLASH) >= 0}}

\* the keys the scan appends to list
DirectKeys(fs, name) == {k \in DOMAIN fs : IsDirectChild(name, k)}

\* the list after the scan, when range visits the keys it appends in the order
\* korder (where it visits the other keys shows nowhere)
ScanList(fs, name, korder) ==
    LET sel == SelectSeq(korder, LAMBDA k : IsDirectChild(name, k))
    IN  [i \in 1..Len(sel) |-> [name |-> Felem(name, sel[i]), f |-> fs[sel[i]]]]

\* a loop that deletes nothing from need
PruneNeed_Nothing(need, list) == need
\* for _, fi := range list { delete(need, fi.name) }
PruneNeed(need, list) == need \ {list[i].name : i \in 1..Len(list)}

\* for name := range need { list = append(list, mapFileInfo{name, &MapFile{Mode: fs.ModeDir}}) }
\* in the order norder in which range visits need
AppendNeed(list, need, norder) ==
    LET sel == SelectSeq(norder, LAMBDA n : n \in need)
    IN  list \o [i \in 1..Len(sel) |-> [name |-> sel[i], f |-> Synth]]

\* the sorted entry list of the directory name
DirEntries(fs, name, korder, norder) ==
    LET list == ScanList(fs, name, korder)
    IN  SortSlice(AppendNeed(list, PruneNeed(NeedNames(fs, name), list), norder))

\* a return that loses the error
ErrResult_Lost(e) == [err |-> "nil", kind |-> "none"]
\* return nil, &fs.PathError{..., Err: e}
ErrResult(e) == [err |-> e, kind |-> "none"]

\* an Open that treats the root like any other name: not found without record
\* and children
OpenWith_RootChecked(fs, hp, name, korder, norder) ==
    LET file == Lookup(fs, name)
    IN  IF ~ValidPath(name) THEN ErrResult("ErrNotExist")
        ELSE IF file # Nil /\ ~IsDirMode(hp[file].Mode)
        THEN [err |-> "nil", kind |-> "file", path |-> name,
              name |-> Base(name), f |-> file, offset |-> 0]
        ELSE IF /\ file = Nil
                /\ ScanList(fs, name, korder) = <<>>
                /\ NeedNames(fs, name) = {}
        THEN ErrResult("ErrNotExist")
        ELSE [err |-> "nil", kind |-> "dir", path |-> name,
              name |-> IF name = Root THEN Root
                       ELSE Slice(name, LastIndex(name, SLASH) + 1, Len(name)),
              f |-> IF file = Nil THEN Synth ELSE file,
              entry |-> DirEntries(fs, name, korder, norder), offset |-> 0]
\* Open(name), with the orders korder and norder that the ranges over fsys and
\* over need take (Go leaves the order of a range over a map open)
OpenWith(fs, hp, name, korder, norder) ==
    LET file == Lookup(fs, name)
    IN  IF ~ValidPath(name) THEN ErrResult("ErrNotExist")
        ELSE IF file # Nil /\ ~IsDirMode(hp[file].Mode)
        THEN [err |-> "nil", kind |-> "file", path |-> name,
              name |-> Base(name), f |-> file, offset |-> 0]
        ELSE IF /\ name # Root
                /\ file = Nil
                /\ ScanList(fs, name, korder) = <<>>
                /\ NeedNames(fs, name) = {}
        THEN ErrResult("ErrNotExist")
        ELSE [err |-> "nil", kind |-> "dir", path |-> name,
              name |-> IF name = Root THEN Root
                       ELSE Slice(name, LastIndex(name, SLASH) + 1, Len(name)),
              f |-> IF file = Nil THEN Synth ELSE file,
              entry |-> DirEntries(fs, name, korder, norder), offset |-> 0]

\* Open(name) where the order of the ranges cannot show: whether it fails, and
\* the handle apart from the entry list before the sort
Open(fs, hp, name) ==
    OpenWith(fs, hp, name, Ascending(DirectKeys(fs, name)),
             Ascending(NeedNames(fs, name)))

----------------------------------------------------------------------------
(* The file handle: OpenMapFile *)

\* copy(dst, src) returns min(len(dst), len(src))
CopyLen(dstLen, srcLen) == Min(dstLen, srcLen)

\* a Read that signals the end only to a buffer with room
Read_QuietOnEmpty(hp, f, n) ==
    LET data == Deref(hp, f.f).Data
    IN  IF f.offset >= Len(data)
        THEN [n |-> 0, err |-> IF n > 0 THEN "EOF" ELSE "nil", bytes |-> <<>>,
              offset |-> f.offset]
        ELSE IF f.offset < 0
        THEN [n |-> 0, err |-> "ErrInvalid", bytes |-> <<>>, offset |-> f.offset]
        ELSE LET c == CopyLen(n, Len(data) - f.offset)
             IN  [n |-> c, err |-> "nil",
                  bytes |-> Slice(data, f.offset, f.offset + c),
                  offset |-> f.offset + c]
\* OpenMapFile.Read(b) with len(b) = n: what it returns and the new offset
Read(hp, f, n) ==
    LET data == Deref(hp, f.f).Data
    IN  IF f.offset >= Len(data)
        THEN [n |-> 0, err |-> "EOF", bytes |-> <<>>, offset |-> f.offset]
        ELSE IF f.offset < 0
        THEN [n |-> 0, err |-> "ErrInvalid", bytes |-> <<>>, offset |-> f.offset]
        ELSE LET c == CopyLen(n, Len(data) - f.offset)
             IN  [n |-> c, err |-> "nil",
                  bytes |-> Slice(data, f.offset, f.offset + c),
                  offset |-> f.offset + c]

\* a Write that appends b to the Data of the record
WriteData_Append(data, b) == data \o b
\* OpenMapFile.Write(b): the Data of the record afterwards
\*   n := copy(f.f.Data, b); if n < len(b) { f.f.Data = append(f.f.Data, b[n:]...) }
WriteData(data, b) ==
    LET n == CopyLen(Len(data), Len(b))
        copiedIn == Slice(b, 0, n) \o Slice(data, n, Len(data))
    IN  IF n < Len(b) THEN copiedIn \o Slice(b, n, Len(b)) ELSE copiedIn

\* a Write whose result stays with the copy of the handle it is called on
Write_Lost(hp, f, b) == hp
\* OpenMapFile.Write(b): the heap afterwards; the receiver is a copy of the handle,
\* its f the same *MapFile
Write(hp, f, b) == [hp EXCEPT ![f.f].Data = WriteData(hp[f.f].Data, b)]

\* a Seek that only refuses a negative target
Seek_PastEnd(hp, f, offset, whence) ==
    LET len == Len(Deref(hp, f.f).Data)
        target == CASE whence = 1 -> offset + f.offset
                    [] whence = 2 -> offset + len
                    [] OTHER -> offset
    IN  IF target < 0
        THEN [n |-> 0, err |-> "ErrInvalid", offset |-> f.offset]
        ELSE [n |-> target, err |-> "nil", offset |-> target]
\* OpenMapFile.Seek(offset, whence)
Seek(hp, f, offset, whence) ==
    LET len == Len(Deref(hp, f.f).Data)
        target == CASE whence = 1 -> offset + f.offset
                    [] whence = 2 -> offset + len
                    [] OTHER -> offset
    IN  IF target < 0 \/ target > len
        THEN [n |-> 0, err |-> "ErrInvalid", offset |-> f.offset]
        ELSE [n |-> target, err |-> "nil", offset |-> target]

\* OpenMapFile.ReadAt(b, offset) with len(b) = n
ReadAt(hp, f, n, offset) ==
    LET data == Deref(hp, f.f).Data
    IN  IF offset < 0 \/ offset > Len(data)
        THEN [n |-> 0, err |-> "ErrInvalid", bytes |-> <<>>]
        ELSE LET c == CopyLen(n, Len(data) - offset)
             IN  [n |-> c, err |-> IF c < n THEN "EOF" ELSE "nil",
                  bytes |-> Slice(data, offset, offset + c)]

\* a ReadDir that signals the end with the batch that exhausts the list
ReadDir_EOFWithLast(d, count) ==
    LET n == Len(d.entry) - d.offset
    IN  IF n = 0 /\ count > 0
        THEN [err |-> "EOF", list |-> <<>>, offset |-> d.offset]
        ELSE LET m == IF count > 0 /\ n > count THEN count ELSE n
             IN  [err |-> IF count > 0 /\ m = n THEN "EOF" ELSE "nil",
                  list |-> Slice(d.entry, d.offset, d.offset + m),
                  offset |-> d.offset + m]
\* mapDir.ReadDir(count)
ReadDir(d, count) ==
    LET n == Len(d.entry) - d.offset
    IN  IF n = 0 /\ count > 0
        THEN [err |-> "EOF", list |-> <<>>, offset |-> d.offset]
        ELSE LET m == IF count > 0 /\ n > count THEN count ELSE n
             IN  [err |-> "nil",
                  list |-> Slice(d.entry, d.offset, d.offset + m),
                  offset |-> d.offset + m]

----------------------------------------------------------------------------
(* fs.ReadFile and fs.Stat over Open, as MapFS.ReadFile and MapFS.Stat call them *)

\* the loop of fs.ReadFile: Read into the free part of the buffer (cap - len
\* bytes, grown when full) until Read returns an error; io.EOF ends it well
RECURSIVE ReadLoop(_, _, _, _)
ReadLoop(hp, f, acc, cap) ==
    LET cap2 == IF Len(acc) >= cap THEN cap + 1 ELSE cap
        r == Read(hp, f, cap2 - Len(acc))
    IN  IF r.err = "EOF" THEN [err |-> "nil", data |-> acc \o r.bytes]
        ELSE IF r.err # "nil" THEN [err |-> r.err, data |-> acc \o r.bytes]
        ELSE ReadLoop(hp, [f EXCEPT !.offset = r.offset], acc \o r.bytes, cap2)

\* MapFS.ReadFile(name): a mapDir fails its first Read
ReadFile(fs, hp, name) ==
    LET o == Open(fs, hp, name)
    IN  IF o.err # "nil" THEN [err |-> o.err, data |-> <<>>]
        ELSE IF o.kind = "dir" THEN [err |-> "ErrInvalid", data |-> <<>>]
        ELSE ReadLoop(hp, o, <<>>, Len(hp[o.f].Data) + 1)

\* MapFS.Stat(name): the mapFileInfo of the handle Open returns
Stat(fs, hp, name) ==
    LET o == Open(fs, hp, name)
    IN  IF o.err # "nil" THEN [err |-> o.err]
        ELSE [err |-> "nil", Name |-> o.name,
              Size |-> Len(Deref(hp, o.f).Data),
              Mode |-> Deref(hp, o.f).Mode,
              IsDir |-> IsDirMode(Deref(hp, o.f).Mode)]

----------------------------------------------------------------------------
(* The mutators of MapFS and of EasyFS, as functions of the map and the heap *)

\* fsys[k] = v
Put(fs, k, v) == [x \in DOMAIN fs \cup {k} |-> IF x = k THEN v ELSE fs[x]]

\* delete(fsys, k)
Delete(fs, k) == [x \in DOMAIN fs \ {k} |-> fs[x]]

\* &MapFile{...}: the identity of a new record
NewRef(hp) ==
    CHOOSE r \in 1..(Cardinality(DOMAIN hp) + 1) :
        r \notin DOMAIN hp /\ \A q \in 1..(r - 1) : q \in DOMAIN hp

\* a Mkdir that stores the permission bits as the mode, without fs.ModeDir
Mkdir_PermOnly(fs, hp, name) ==
    LET r == NewRef(hp)
    IN  [fs |-> Put(fs, name, r),
         hp |-> Put(hp, r, [Data |-> <<>>, Mode |-> FileMode(FALSE, 511)]),
         err |-> "nil"]
\* MapFS.Mkdir(name, perm)
Mkdir(fs, hp, name) ==
    LET r == NewRef(hp)
    IN  [fs |-> Put(fs, name, r),
         hp |-> Put(hp, r, [Data |-> <<>>, Mode |-> ModeDir]),
         err |-> "nil"]

\* EasyFS.Mkdir(name, perm)
EasyFS_Mkdir(fs, hp, name) ==
    LET r == NewRef(hp)
    IN  [fs |-> Put(fs, name, r),
         hp |-> Put(hp, r, [Data |-> <<>>, Mode |-> ModeDir]),
         err |-> "nil"]

\* a Create that opens the record a key holds already
Create_Reopen(fs, hp, name) ==
    LET n == StripSlash(name)
        r == IF Lookup(fs, n) # Nil THEN fs[n] ELSE NewRef(hp)
    IN  [fs |-> Put(fs, n, r),
         hp |-> IF Lookup(fs, n) # Nil THEN hp
                ELSE Put(hp, r, [Data |-> <<>>, Mode |-> FileMode(FALSE, 438)]),
         err |-> "nil",
         file |-> [err |-> "nil", kind |-> "file", path |-> n, name |-> n,
                   f |-> r, offset |-> 0]]
\* MapFS.Create(name): the record, and the OpenMapFile{path: name, mapFileInfo{name, fsys[name]}}
Create(fs, hp, name) ==
    LET n == StripSlash(name)
        r == NewRef(hp)
    IN  [fs |-> Put(fs, n, r),
         hp |-> Put(hp, r, [Data |-> <<>>, Mode |-> FileMode(FALSE, 438)]),
         err |-> "nil",
         file |-> [err |-> "nil", kind |-> "file", path |-> n, name |-> n,
                   f |-> r, offset |-> 0]]

\* a WriteFile that leaves a key that is there as it is
WriteFile_KeepExisting(fs, hp, name, data, perm) ==
    LET n == StripSlash(name)
        r == NewRef(hp)
    IN  IF n \in DOMAIN fs THEN [fs |-> fs, hp |-> hp, err |-> "nil"]
        ELSE [fs |-> Put(fs, n, r),
              hp |-> Put(hp, r, [Data |-> data, Mode |-> perm]),
              err |-> "nil"]
\* MapFS.WriteFile(name, data, perm)
WriteFile(fs, hp, name, data, perm) ==
    LET n == StripSlash(name)
        r == NewRef(hp)
    IN  [fs |-> Put(fs, n, r),
         hp |-> Put(hp, r, [Data |-> data, Mode |-> perm]),
         err |-> "nil"]

\* EasyFS.WriteFile(name, data, perm): perm is dropped
EasyFS_WriteFile(fs, hp, name, data, perm) ==
    LET n == StripSlash(name)
        r == NewRef(hp)
    IN  [fs |-> Put(fs, n, r),
         hp |-> Put(hp, r, [Data |-> data, Mode |-> FileMode(FALSE, 0)]),
         err |-> "nil"]

\* a Remove that takes the keys below name with it
Remove_Recursive(fs, hp, name) ==
    LET n == StripSlash(name)
        gone == {k \in DOMAIN fs : k = n \/ HasPrefix(k, n \o <<SLASH>>)}
    IN  [fs |-> [k \in DOMAIN fs \ gone |-> fs[k]], hp |-> hp, err |-> "nil"]
\* MapFS.Remove(name)
Remove(fs, hp, name) ==
    [fs |-> Delete(fs, StripSlash(name)), hp |-> hp, err |-> "nil"]

\* a Rename without the delete
Rename_NoDelete(fs, hp, oldname, newname) ==
    LET o == StripSlash(oldname)
        n == StripSlash(newname)
    IN  [fs |-> Put(fs, n, Lookup(fs, o)), hp |-> hp, err |-> "nil"]
\* MapFS.Rename(oldname, newname): fsys[newname] = fsys[oldname]; delete(fsys, oldname)
Rename(fs, hp, oldname, newname) ==
    LET o == StripSlash(oldname)
        n == StripSlash(newname)
    IN  [fs |-> Delete(Put(fs, n, Lookup(fs, o)), o), hp |-> hp, err |-> "nil"]

\* a Copy that duplicates the record
Copy_Deep(fs, hp, dst, src) ==
    LET srcFile == Lookup(fs, src)
        r == NewRef(hp)
    IN  IF srcFile = Nil THEN [fs |-> fs, hp |-> hp, err |-> "ErrNotExist"]
        ELSE [fs |-> Put(fs, dst, r), hp |-> Put(hp, r, hp[srcFile]), err |-> "nil"]
\* MapFS.Copy(dst, src)
Copy(fs, hp, dst, src) ==
    LET srcFile == Lookup(fs, src)
    IN  IF srcFile = Nil THEN [fs |-> fs, hp |-> hp, err |-> "ErrNotExist"]
        ELSE [fs |-> Put(fs, dst, srcFile), hp |-> hp, err |-> "nil"]

----------------------------------------------------------------------------
(* Bounds and inputs *)

MaxKeys == 3       \* keys the map holds at most
MaxHandles == 2    \* handles the caller holds at once on shared records
MaxOpen == 1       \* handles the caller holds at once on the one file
MaxLen == 2        \* length of the contents and of the buffers of the one file
MaxDirs == 1       \* directory handles the caller holds at once

\* "a", "b", "a/b", "a/b/c", and "/a", "/b" with the leading slash some mutators strip
Pa == <<97>>
Pb == <<98>>
Pab == <<97, SLASH, 98>>
Pabc == <<97, SLASH, 98, SLASH, 99>>
SlashPa == <<SLASH, 97>>
SlashPb == <<SLASH, 98>>

\* names that fs.ValidPath rejects: "", "/b", "a/", "a//b", "a/.", "a/.."
Malformed == {<<>>, SlashPb, <<97, SLASH>>, <<97, SLASH, SLASH, 98>>,
              <<97, SLASH, DOT>>, <<97, SLASH, DOT, DOT>>}

\* the names the operations are called with
Paths == {Root, Pa, Pb, Pab, Pabc}
StripPaths == Paths \cup {SlashPb}
PathsIO == {Pa, Pb}
PathsDir == {Pa, Pb, Pab}

\* the <<oldname, newname>> of Rename and the <<dst, src>> of Copy under an open
\* directory
MovesDir == {<<Pb, Pa>>, <<Pab, Pb>>}
CopiesDir == {<<Pb, Pa>>}

\* the bytes of the contents
Bytes == {104, 105}

\* all contents of at most n bytes
Contents(n) == UNION {[1..k -> Bytes] : k \in 0..n}

\* the contents that WriteFile is called with: none, and "hi"
ContentsStore == {<<>>, <<104, 105>>}

\* what is written where records are shared: "hi" by WriteFile, "h" and "i"
\* through the handles
DataIO == <<104, 105>>
WritesIO == {<<104>>, <<105>>}
\* buffers, written bytes and seek offsets of the cursor specification
ReadsCursor == {0, 1}
WritesCursor == {<<105>>, <<105, 104, 105>>}
OffsetsCursor == {-1, 1}

\* the perm arguments: 0644, and fs.ModeDir|0755
PermArgs == {FileMode(FALSE, 420), FileMode(TRUE, 493)}

\* the data and perm that WriteFile is called with where the paths are many
WriteArgs == {<<<<>>, FileMode(FALSE, 420)>>,
              <<DataIO, FileMode(FALSE, 420)>>,
              <<DataIO, FileMode(TRUE, 493)>>}

----------------------------------------------------------------------------
(* The state *)

NoHandle == [kind |-> "none"]
NoScen == [step |-> 0, h |-> 0, w |-> <<>>]
NoCopy == <<>>

\* what the history variable last holds of a call
Called(op, name, name2, data, arg, h, res) ==
    [op |-> op, name |-> name, name2 |-> name2, data |-> data, arg |-> arg,
     h |-> h, res |-> res]

\* between two calls last holds nothing
Idle == Called("idle", <<>>, <<>>, <<>>, 0, 0, [err |-> "nil"])

\* the caller is between two calls
Ready == last.op = "idle"

\* the references a handle (or what Open returned) holds, in order
HandleRefs(hd) ==
    IF hd.kind = "file" THEN <<hd.f>>
    ELSE IF hd.kind = "dir" THEN <<hd.f>> \o [i \in 1..Len(hd.entry) |-> hd.entry[i].f]
    ELSE <<>>

\* the keys of the map in ascending order
KeySeq(fs) == Ascending(DOMAIN fs)

RECURSIVE Flatten(_)
Flatten(ss) == IF ss = <<>> THEN <<>> ELSE ss[1] \o Flatten(Tail(ss))

\* the first occurrence of each element of s, in order
RECURSIVE Uniq(_)
Uniq(s) ==
    IF s = <<>> THEN <<>>
    ELSE LET u == Uniq(SubSeq(s, 1, Len(s) - 1))
         IN  IF s[Len(s)] \in Range(u) THEN u ELSE Append(u, s[Len(s)])

\* the records the caller can still reach, in the order a walk over the map, the
\* handles and what the last call returned meets them
Reachable(fs, hs, la) ==
    LET ks == KeySeq(fs)
        walk == [i \in 1..Len(ks) |-> fs[ks[i]]]
                  \o Flatten([s \in 1..Len(hs) |-> HandleRefs(hs[s])])
                  \o (IF la.op = "Rename" THEN <<la.res.r>>
                      ELSE IF la.op = "Open" THEN HandleRefs(la.res) ELSE <<>>)
    IN  Uniq(SelectSeq(walk, LAMBDA r : r # Nil /\ r # Synth))

\* the identity of record r when the reachable records are numbered in order: the
\* identities themselves carry no meaning, only which references are equal
Renumber(order, r) ==
    IF r = Nil \/ r = Synth THEN r ELSE CHOOSE i \in 1..Len(order) : order[i] = r

RenumberHandle(order, hd) ==
    IF hd.kind = "file" THEN [hd EXCEPT !.f = Renumber(order, hd.f)]
    ELSE IF hd.kind = "dir"
    THEN [hd EXCEPT !.f = Renumber(order, hd.f),
                    !.entry = [i \in 1..Len(hd.entry) |->
                                  [hd.entry[i] EXCEPT !.f = Renumber(order, hd.entry[i].f)]]]
    ELSE hd

RenumberLast(order, la) ==
    IF la.op = "Rename" THEN [la EXCEPT !.res.r = Renumber(order, la.res.r)]
    ELSE IF la.op = "Open" THEN [la EXCEPT !.res = RenumberHandle(order, la.res)]
    ELSE la

\* the state after a call: records out of reach are collected
Becomes(fs, hp, hs, cp, sc, la) ==
    \E order \in {Reachable(fs, hs, la)} :
        /\ fsys' = [k \in DOMAIN fs |-> Renumber(order, fs[k])]
        /\ heap' = [i \in 1..Len(order) |-> hp[order[i]]]
        /\ handles' = [s \in DOMAIN hs |-> RenumberHandle(order, hs[s])]
        /\ copied' = cp
        /\ scen' = sc
        /\ last' = RenumberLast(order, la)

\* the model holds at most MaxKeys keys
Fits(fs) == Cardinality(DOMAIN fs) <= MaxKeys

\* a later mutator that assigns or deletes one of keys ends the pairing of Copy
Touch(cp, keys) ==
    IF cp # NoCopy /\ (cp[1] \in keys \/ cp[2] \in keys) THEN NoCopy ELSE cp

FreeSlots == {s \in DOMAIN handles : handles[s].kind = "none"}

\* the slot a returned handle is kept in: the first free one, 0 when the caller
\* holds MaxHandles handles already and drops it
Slot == IF FreeSlots = {} THEN 0
        ELSE CHOOSE s \in FreeSlots : \A t \in FreeSlots : s <= t

Keep(hs, s, hd) == IF s = 0 THEN hs ELSE [hs EXCEPT ![s] = hd]

InitStore ==
    /\ fsys = <<>>
    /\ heap = <<>>
    /\ handles = <<>>
    /\ copied = NoCopy
    /\ scen = NoScen
    /\ last = Idle

InitIO ==
    /\ fsys = <<>>
    /\ heap = <<>>
    /\ handles = [s \in 1..MaxHandles |-> NoHandle]
    /\ copied = NoCopy
    /\ scen = NoScen
    /\ last = Idle

InitDir ==
    /\ fsys = <<>>
    /\ heap = <<>>
    /\ handles = [s \in 1..MaxDirs |-> NoHandle]
    /\ copied = NoCopy
    /\ scen = NoScen
    /\ last = Idle

InitFile ==
    /\ fsys = <<>>
    /\ heap = <<>>
    /\ handles = [s \in 1..MaxOpen |-> NoHandle]
    /\ copied = NoCopy
    /\ scen = NoScen
    /\ last = Idle

----------------------------------------------------------------------------
(* The calls: one action per operation *)

CallMkdir(name) ==
    /\ Ready
    /\ \E m \in {Mkdir(fsys, heap, name)} :
       LET la == Called("Mkdir", name, <<>>, <<>>, 0, 0, [err |-> m.err])
       IN  /\ Fits(m.fs)
           /\ Becomes(m.fs, m.hp, handles, Touch(copied, {name}), NoScen, la)

CallEasyMkdir(name) ==
    /\ Ready
    /\ \E m \in {EasyFS_Mkdir(fsys, heap, name)} :
       LET la == Called("EasyFS.Mkdir", name, <<>>, <<>>, 0, 0, [err |-> m.err])
       IN  /\ Fits(m.fs)
           /\ Becomes(m.fs, m.hp, handles, Touch(copied, {name}), NoScen, la)

CallCreate(name) ==
    /\ Ready
    /\ LET m == Create(fsys, heap, name)
           s == Slot
           la == Called("Create", name, <<>>, <<>>, 0, s, [err |-> m.err])
       IN  /\ Fits(m.fs)
           /\ Becomes(m.fs, m.hp, Keep(handles, s, m.file),
                      Touch(copied, {StripSlash(name)}),
                      IF s = 0 THEN NoScen ELSE [step |-> 1, h |-> s, w |-> <<>>], la)

CallWriteFile(name, data, perm) ==
    /\ Ready
    /\ \E m \in {WriteFile(fsys, heap, name, data, perm)} :
       LET la == Called("WriteFile", name, <<>>, data, perm, 0, [err |-> m.err])
       IN  /\ Fits(m.fs)
           /\ Becomes(m.fs, m.hp, handles, Touch(copied, {StripSlash(name)}), NoScen, la)

CallEasyWriteFile(name, data, perm) ==
    /\ Ready
    /\ \E m \in {EasyFS_WriteFile(fsys, heap, name, data, perm)} :
       LET la == Called("EasyFS.WriteFile", name, <<>>, data, perm, 0, [err |-> m.err])
       IN  /\ Fits(m.fs)
           /\ Becomes(m.fs, m.hp, handles, Touch(copied, {StripSlash(name)}), NoScen, la)

CallRemove(name) ==
    /\ Ready
    /\ \E m \in {Remove(fsys, heap, name)} :
       LET la == Called("Remove", name, <<>>, <<>>, 0, 0, [err |-> m.err])
       IN  Becomes(m.fs, m.hp, handles, Touch(copied, {StripSlash(name)}), NoScen, la)

\* last keeps the reference oldname held before the call
CallRename(oldname, newname) ==
    /\ Ready
    /\ \E m \in {Rename(fsys, heap, oldname, newname)} :
       LET la == Called("Rename", oldname, newname, <<>>, 0, 0,
                        [err |-> m.err, r |-> Lookup(fsys, StripSlash(oldname))])
       IN  /\ Fits(m.fs)
           /\ Becomes(m.fs, m.hp, handles,
                      Touch(copied, {StripSlash(oldname), StripSlash(newname)}), NoScen, la)

CallCopy(dst, src) ==
    /\ Ready
    /\ \E m \in {Copy(fsys, heap, dst, src)} :
       LET la == Called("Copy", dst, src, <<>>, 0, 0, [err |-> m.err])
       IN  /\ Fits(m.fs)
           /\ Becomes(m.fs, m.hp, handles,
                      IF m.err # "nil" THEN copied
                      ELSE IF DOMAIN handles = {} THEN NoCopy
                      ELSE <<dst, src>>, NoScen, la)

\* Open(name); the caller keeps the handle it gets
CallOpen(name) ==
    /\ Ready
    /\ \E korder \in Perms(DirectKeys(fsys, name)), norder \in Perms(NeedNames(fsys, name)) :
       \E o \in {OpenWith(fsys, heap, name, korder, norder)} :
           LET s == IF o.err = "nil" THEN Slot ELSE 0
               la == Called("Open", name, <<>>, <<>>, 0, s, o)
           IN  Becomes(fsys, heap, Keep(handles, s, o), copied,
                       IF s # 0 /\ o.kind = "dir"
                       THEN [step |-> 5, h |-> s, w |-> <<>>] ELSE NoScen, la)

\* f.Read(b) with len(b) = n on the handle in slot h; a mapDir fails it
CallRead(h, n) ==
    /\ Ready
    /\ handles[h].kind # "none"
    /\ \E r \in {IF handles[h].kind = "file" THEN Read(heap, handles[h], n)
                ELSE [n |-> 0, err |-> "ErrInvalid", bytes |-> <<>>,
                      offset |-> handles[h].offset]} :
       LET la == Called("Read", <<>>, <<>>, <<>>, n, h, r)
       IN  Becomes(fsys, heap, [handles EXCEPT ![h].offset = r.offset], copied,
                   IF scen.step = 3 /\ scen.h = h
                   THEN [scen EXCEPT !.step = 4] ELSE NoScen, la)

\* f.Write(b) on the file handle in slot h; last keeps the Data before the call
CallWrite(h, b) ==
    /\ Ready
    /\ handles[h].kind = "file"
    /\ LET la == Called("Write", <<>>, <<>>, b, 0, h,
                        [n |-> Len(b), err |-> "nil", old |-> heap[handles[h].f].Data])
       IN  Becomes(fsys, Write(heap, handles[h], b), handles, copied,
                   IF scen.step = 1 /\ scen.h = h
                   THEN [step |-> 2, h |-> h, w |-> b] ELSE NoScen, la)

\* f.Seek(offset, whence) on the file handle in slot h
CallSeek(h, offset, whence) ==
    /\ Ready
    /\ handles[h].kind = "file"
    /\ \E r \in {Seek(heap, handles[h], offset, whence)} :
       LET la == Called("Seek", <<>>, <<>>, <<offset, whence>>, 0, h, r)
       IN  Becomes(fsys, heap, [handles EXCEPT ![h].offset = r.offset], copied,
                   IF scen.step = 2 /\ scen.h = h /\ offset = 0 /\ whence = 0
                   THEN [scen EXCEPT !.step = 3] ELSE NoScen, la)

\* f.ReadAt(b, offset) with len(b) = n on the file handle in slot h
CallReadAt(h, n, offset) ==
    /\ Ready
    /\ handles[h].kind = "file"
    /\ Becomes(fsys, heap, handles, copied, NoScen,
               Called("ReadAt", <<>>, <<>>, <<offset>>, n, h,
                      ReadAt(heap, handles[h], n, offset)))

\* a ReadDir that lists the map anew before it returns its batch
CallReadDir_Relisting(h, count) ==
    /\ Ready
    /\ handles[h].kind = "dir"
    /\ \E o \in {Open(fsys, heap, handles[h].path)} :
       \E d \in {IF o.err = "nil" /\ o.kind = "dir"
                 THEN [handles[h] EXCEPT !.entry = o.entry]
                 ELSE [handles[h] EXCEPT !.entry = <<>>]} :
       \E r \in {ReadDir(d, count)} :
       LET la == Called("ReadDir", <<>>, <<>>, <<>>, count, h, r)
       IN  Becomes(fsys, heap, [handles EXCEPT ![h] = [d EXCEPT !.offset = r.offset]],
                   copied,
                   IF scen.step = 5 /\ scen.h = h
                   THEN [scen EXCEPT !.w = @ \o r.list] ELSE NoScen, la)
\* d.ReadDir(count) on the directory handle in slot h
CallReadDir(h, count) ==
    /\ Ready
    /\ handles[h].kind = "dir"
    /\ \E r \in {ReadDir(handles[h], count)} :
       LET la == Called("ReadDir", <<>>, <<>>, <<>>, count, h, r)
       IN  Becomes(fsys, heap, [handles EXCEPT ![h].offset = r.offset], copied,
                   IF scen.step = 5 /\ scen.h = h
                   THEN [scen EXCEPT !.w = @ \o r.list] ELSE NoScen, la)

\* the caller has looked at what the call returned and goes on to its next call
Return ==
    /\ ~Ready
    /\ Becomes(fsys, heap, handles, copied, scen, Idle)

\* f.Close(), after which the caller lets go of the handle
CallClose(h) ==
    /\ Ready
    /\ handles[h].kind # "none"
    /\ Becomes(fsys, heap, [handles EXCEPT ![h] = NoHandle], copied, NoScen,
               Called("Close", <<>>, <<>>, <<>>, 0, h, [err |-> "nil"]))

----------------------------------------------------------------------------
(* The specifications *)

\* the store: many paths, a caller that keeps no handle
NextStore ==
    \/ Return
    \/ \E name \in Paths : CallMkdir(name)
    \/ \E name \in Paths : CallEasyMkdir(name)
    \/ \E name \in StripPaths, w \in WriteArgs : CallWriteFile(name, w[1], w[2])
    \/ \E name \in StripPaths, perm \in PermArgs : CallEasyWriteFile(name, DataIO, perm)
    \/ \E name \in StripPaths : CallRemove(name)
    \/ \E oldname, newname \in StripPaths : CallRename(oldname, newname)
    \/ \E dst, src \in Paths : CallCopy(dst, src)
    \/ \E name \in Paths \cup Malformed : CallOpen(name)

Spec == InitStore /\ [][NextStore]_vars

\* shared records: two paths, handles from Open, writes through them
NextIO ==
    \/ Return
    \/ \E name \in PathsIO : CallWriteFile(name, DataIO, FileMode(FALSE, 420))
    \/ \E name \in PathsIO : CallRemove(name)
    \/ \E oldname, newname \in PathsIO : CallRename(oldname, newname)
    \/ \E dst, src \in PathsIO : CallCopy(dst, src)
    \/ \E name \in PathsIO : CallOpen(name)
    \/ \E h \in DOMAIN handles, b \in WritesIO : CallWrite(h, b)
    \/ \E h \in DOMAIN handles : CallClose(h)

SpecIO == InitIO /\ [][NextIO]_vars

\* one file: created, written, sought and read through its handle
NextFile ==
    \/ Return
    \/ CallMkdir(Pa)
    \/ \E name \in {Pa, SlashPa} : CallCreate(name)
    \/ \E data \in ContentsStore : CallWriteFile(Pa, data, FileMode(FALSE, 438))
    \/ CallRemove(Pa)
    \/ CallRename(Pb, Pa)
    \/ CallOpen(Pa)
    \/ \E h \in DOMAIN handles, n \in 0..(MaxLen + 1) : CallRead(h, n)
    \/ \E h \in DOMAIN handles, b \in Contents(MaxLen) : CallWrite(h, b)
    \/ \E h \in DOMAIN handles, offset \in {-1, 0, 1, MaxLen}, whence \in 0..2 :
           CallSeek(h, offset, whence)
    \/ \E h \in DOMAIN handles, n \in 0..(MaxLen + 1), offset \in {-1, 0, 1, MaxLen} :
           CallReadAt(h, n, offset)
    \/ \E h \in DOMAIN handles, count \in {-1, 0, 1} : CallReadDir(h, count)
    \/ \E h \in DOMAIN handles : CallClose(h)

SpecFile == InitFile /\ [][NextFile]_vars

\* cursors: several handles on the records of one path, each read, sought and
\* written through while the path is created and written anew
NextCursor ==
    \/ Return
    \/ CallCreate(Pa)
    \/ CallWriteFile(Pa, DataIO, FileMode(FALSE, 420))
    \/ CallOpen(Pa)
    \/ \E h \in DOMAIN handles, n \in ReadsCursor : CallRead(h, n)
    \/ \E h \in DOMAIN handles, b \in WritesCursor : CallWrite(h, b)
    \/ \E h \in DOMAIN handles, offset \in OffsetsCursor, whence \in 0..2 :
           CallSeek(h, offset, whence)
    \/ \E h \in DOMAIN handles, offset \in OffsetsCursor : CallReadAt(h, 1, offset)
    \/ \E h \in DOMAIN handles : CallClose(h)

SpecCursor == InitIO /\ [][NextCursor]_vars

\* directories: the root and "a" opened, listed in batches, the map changed
\* under the open handle
NextDir ==
    \/ Return
    \/ \E name \in PathsDir : CallMkdir(name)
    \/ \E name \in PathsDir : CallRemove(name)
    \/ \E m \in MovesDir : CallRename(m[1], m[2])
    \/ \E c \in CopiesDir : CallCopy(c[1], c[2])
    \/ \E name \in {Root, Pa} : CallOpen(name)
    \/ \E h \in DOMAIN handles, count \in {-1, 0, 1, 2} : CallReadDir(h, count)
    \/ \E h \in DOMAIN handles : CallClose(h)

SpecDir == InitDir /\ [][NextDir]_vars

----------------------------------------------------------------------------
(* What the operations guarantee, in the state right after the call *)

\* the keys below name: for the root every other key, else the keys name + "/" + x
Below(fs, name) == {k \in DOMAIN fs : IsBelow(name, k) /\ k # name}

\* the first element of key k below name
FirstElem(name, k) ==
    LET felem == Felem(name, k)
        i == Index(felem, SLASH)
    IN  IF i < 0 THEN felem ELSE Slice(felem, 0, i)

\* the names of the entries of a directory handle
EntryNames(d) == {d.entry[i].name : i \in 1..Len(d.entry)}

\* C1: for a valid path p, contents d and a mode m without the directory flag,
\* right after WriteFile(p, d, m) (of MapFS or of EasyFS) ReadFile(p) succeeds
\* and returns exactly d, and Stat(p) succeeds with Size = len(d)
C1_WriteFileThenRead ==
    (/\ last.op \in {"WriteFile", "EasyFS.WriteFile"}
     /\ ValidPath(last.name)
     /\ ~IsDirMode(last.arg))
    => /\ ReadFile(fsys, heap, last.name) = [err |-> "nil", data |-> last.data]
       /\ Stat(fsys, heap, last.name).err = "nil"
       /\ Stat(fsys, heap, last.name).Size = Len(last.data)

\* C1 happens: a non-empty file was written over a path that has a key below it
C1_Witness ==
    /\ last.op = "WriteFile"
    /\ last.name = Pa
    /\ ~IsDirMode(last.arg)
    /\ last.data # <<>>
    /\ Below(fsys, Pa) # {}
    /\ ReadFile(fsys, heap, Pa).data = last.data

\* C2: when Open(p) is called for a valid path p that has no record of its own
\* (no key, or a key holding nil) while some key lies below p, it succeeds with a
\* directory handle whose entries name the first element below p of every such
\* key (for the root: of every key other than the root itself)
C2_SynthesizedDirectory ==
    (/\ last.op = "Open"
     /\ ValidPath(last.name)
     /\ Lookup(fsys, last.name) = Nil
     /\ Below(fsys, last.name) # {})
    => /\ last.res.err = "nil"
       /\ last.res.kind = "dir"
       /\ \A k \in Below(fsys, last.name) :
              FirstElem(last.name, k) \in EntryNames(last.res)

\* C2 happens: "a" is no key, "a/b/c" is, and Open("a") lists "b"
C2_Witness ==
    /\ last.op = "Open"
    /\ last.name = Pa
    /\ Pa \notin DOMAIN fsys
    /\ Pab \notin DOMAIN fsys
    /\ Pabc \in DOMAIN fsys
    /\ last.res.kind = "dir"
    /\ Pb \in EntryNames(last.res)

\* C3: Open(p) of a path p other than the root that has no record of its own and
\* no key below it fails with fs.ErrNotExist; Open(".") succeeds in every state
C3_NotFoundOrRoot ==
    last.op = "Open"
    => /\ (/\ last.name # Root
           /\ Lookup(fsys, last.name) = Nil
           /\ Below(fsys, last.name) = {}) => last.res.err = "ErrNotExist"
       /\ last.name = Root => last.res.err = "nil"

\* C3 happens: Open(".") on the empty map gave a directory without entries
C3_Witness ==
    /\ last.op = "Open"
    /\ last.name = Root
    /\ DOMAIN fsys = {}
    /\ last.res.err = "nil"
    /\ last.res.kind = "dir"
    /\ last.res.entry = <<>>

\* C4: the entries of a directory handle that Open returns are strictly
\* ascending by name, whatever order the ranges over the maps took; an entry
\* whose name is a key directly below the directory carries what that key
\* holds, every other entry the synthesized placeholder
C4_SortedNoDuplicates ==
    (last.op = "Open" /\ last.res.err = "nil" /\ last.res.kind = "dir")
    => /\ \A i \in 1..(Len(last.res.entry) - 1) :
              StrLess(last.res.entry[i].name, last.res.entry[i + 1].name)
       /\ \A i \in 1..Len(last.res.entry) :
              LET e == last.res.entry[i]
                  direct == {k \in DirectKeys(fsys, last.name) :
                                 Felem(last.name, k) = e.name}
              IN  IF direct = {} THEN e.f = Synth
                  ELSE \A k \in direct : e.f = fsys[k]

\* C4 happens: "a/b" holds a record, "a/b/c" is a key too, and Open("a") has
\* the one entry "b" with the record of "a/b"
C4_Witness ==
    /\ last.op = "Open"
    /\ last.name = Pa
    /\ Pab \in DOMAIN fsys
    /\ Pabc \in DOMAIN fsys
    /\ fsys[Pab] # Nil
    /\ last.res.kind = "dir"
    /\ Len(last.res.entry) = 1
    /\ last.res.entry[1] = [name |-> Pb, f |-> fsys[Pab]]

\* C5 as stated: after Rename(a, b) of valid paths, a holding a record,
\* Open(a) fails with fs.ErrNotExist
C5_Original ==
    (/\ last.op = "Rename"
     /\ ValidPath(last.name) /\ ValidPath(last.name2)
     /\ last.res.r # Nil)
    => Open(fsys, heap, last.name).err = "ErrNotExist"

\* C5, amended: after Rename(a, b) of valid paths, a holding a record, a is no
\* key of the map; Open(a) fails with fs.ErrNotExist unless a is the root or a
\* key lies below a, and then it returns a synthesized directory
C5_RenameRemovesKey ==
    (/\ last.op = "Rename"
     /\ ValidPath(last.name) /\ ValidPath(last.name2)
     /\ last.res.r # Nil)
    => /\ last.name \notin DOMAIN fsys
       /\ IF last.name # Root /\ Below(fsys, last.name) = {}
          THEN Open(fsys, heap, last.name).err = "ErrNotExist"
          ELSE /\ Open(fsys, heap, last.name).err = "nil"
               /\ Open(fsys, heap, last.name).kind = "dir"
               /\ Open(fsys, heap, last.name).f = Synth

\* C5 happens: "a" held a record, was renamed to "b", no key lies below it
C5_Witness ==
    /\ last.op = "Rename"
    /\ last.name = Pa
    /\ last.name2 = Pb
    /\ last.res.r # Nil
    /\ Below(fsys, Pa) = {}
    /\ fsys[Pb] = last.res.r
    /\ Open(fsys, heap, Pa).err = "ErrNotExist"

\* C6 as stated: after Rename(a, b) of valid paths (b may hold a record, b may
\* be a), a holding the record r, the map holds r under b and Open(b) returns a
\* handle on r
C6_RenameKeepsRecord ==
    (/\ last.op = "Rename"
     /\ ValidPath(last.name) /\ ValidPath(last.name2)
     /\ last.res.r # Nil)
    => /\ Lookup(fsys, last.name2) = last.res.r
       /\ Open(fsys, heap, last.name2).err = "nil"
       /\ Open(fsys, heap, last.name2).f = last.res.r

\* C10 as stated: Open(p) of a valid path p that holds a record and has a key
\* below it returns a directory handle, whatever the mode of the record
C10_Original ==
    (/\ last.op = "Open"
     /\ ValidPath(last.name)
     /\ Lookup(fsys, last.name) # Nil
     /\ Below(fsys, last.name) # {})
    => last.res.err = "nil" /\ last.res.kind = "dir"

\* C10, amended: Open(p) of a valid path p that holds a record and has a key
\* below it succeeds; it returns a directory handle exactly when the mode of
\* the record has the directory flag, else a file handle on the record
C10_RecordDecides ==
    (/\ last.op = "Open"
     /\ ValidPath(last.name)
     /\ Lookup(fsys, last.name) # Nil
     /\ Below(fsys, last.name) # {})
    => /\ last.res.err = "nil"
       /\ last.res.f = fsys[last.name]
       /\ last.res.kind = IF heap[fsys[last.name]].Mode.Dir THEN "dir" ELSE "file"

\* C10 happens: "a" holds a record without the directory flag, "a/b" is a key,
\* and Open("a") returned the file
C10_Witness ==
    /\ last.op = "Open"
    /\ last.name = Pa
    /\ Lookup(fsys, Pa) # Nil
    /\ ~heap[fsys[Pa]].Mode.Dir
    /\ Pab \in DOMAIN fsys
    /\ last.res.kind = "file"

\* the file handles the caller holds
FileHandles == {handles[s] : s \in {t \in DOMAIN handles : handles[t].kind = "file"}}

\* C7: while the pair of the last successful Copy(dst, src) stands (no later
\* mutator assigned or deleted either key), a Write(b) through a handle on the
\* record that dst or src holds leaves both ReadFile(dst) and ReadFile(src)
\* returning the written contents: b over the start of what the record held
C7_CopyAliases ==
    (/\ last.op = "Write"
     /\ copied # NoCopy
     /\ handles[last.h].path \in {copied[1], copied[2]}
     /\ handles[last.h].f = Lookup(fsys, handles[last.h].path))
    => \A p \in {copied[1], copied[2]} :
           ReadFile(fsys, heap, p) =
               [err |-> "nil", data |-> WriteData(last.res.old, last.data)]

\* C7 happens: after Copy("b", "a") a write through a handle on "b" changed
\* what ReadFile("a") returns
C7_Witness ==
    /\ last.op = "Write"
    /\ copied = <<Pb, Pa>>
    /\ handles[last.h].path = Pb
    /\ handles[last.h].f = Lookup(fsys, Pb)
    /\ ReadFile(fsys, heap, Pa).data # last.res.old
    /\ ReadFile(fsys, heap, Pa).data = WriteData(last.res.old, last.data)

\* C9 as stated: after a Write(b) through a file handle opened on p,
\* ReadFile(p) returns the written contents and so does every other file handle
\* opened on p
C9_Original ==
    last.op = "Write"
    => LET p == handles[last.h].path
           written == WriteData(last.res.old, last.data)
       IN  /\ ReadFile(fsys, heap, p) = [err |-> "nil", data |-> written]
           /\ \A g \in FileHandles : g.path = p => heap[g.f].Data = written

\* C9, amended: after a Write(b) through a file handle, every file handle on the
\* same record reads the written contents, and so does ReadFile(p) for every
\* key p that holds that record; a handle or a key on another record, as p is
\* after a mutator replaced what it held, is not promised to
C9_SharedRecord ==
    last.op = "Write"
    => LET r == handles[last.h].f
           written == WriteData(last.res.old, last.data)
       IN  /\ \A g \in FileHandles :
                  g.f = r => ReadAt(heap, g, Len(written) + 1, 0).bytes = written
           /\ \A p \in DOMAIN fsys :
                  fsys[p] = r => ReadFile(fsys, heap, p) = [err |-> "nil", data |-> written]

\* C9 happens: two handles opened on "a", "a" still holding their record, and a
\* write through one of them that changed the contents
C9_Witness ==
    /\ last.op = "Write"
    /\ \A s \in DOMAIN handles :
           /\ handles[s].kind = "file"
           /\ handles[s].path = Pa
           /\ handles[s].f = Lookup(fsys, Pa)
    /\ Cardinality(DOMAIN handles) >= 2
    /\ heap[fsys[Pa]].Data # last.res.old

\* C8: Create(p), Write(w) on the handle it returns, Seek(0, io.SeekStart),
\* then Read into a buffer of at least len(w) bytes: Read returns n = len(w) and
\* the bytes w, whatever p held before
C8_RoundTrip ==
    (scen.step = 4 /\ last.op = "Read" /\ last.arg >= Len(scen.w))
    => /\ last.res.n = Len(scen.w)
       /\ last.res.bytes = scen.w

\* C8 happens: two bytes written and read back, into a buffer with room to spare
C8_Witness ==
    /\ scen.step = 4
    /\ last.op = "Read"
    /\ Len(scen.w) = 2
    /\ last.arg > Len(scen.w)
    /\ last.res.bytes = scen.w
    /\ last.res.err = "nil"

\* C11 as stated: Open of a name that fs.ValidPath rejects fails with an error
\* of its own kind (fs.ErrInvalid), not with the one of a missing file
C11_Original ==
    (last.op = "Open" /\ ~ValidPath(last.name)) => last.res.err = "ErrInvalid"

\* C11, amended: Open of a name that fs.ValidPath rejects fails with
\* fs.ErrNotExist, the error of a missing file, returns no handle, and leaves
\* the map, the records and the handles of the caller as they were
C11_MalformedIsNotExist ==
    [][(last'.op = "Open" /\ ~ValidPath(last'.name))
       => /\ last'.res = [err |-> "ErrNotExist", kind |-> "none"]
          /\ last'.h = 0
          /\ fsys' = fsys /\ heap' = heap /\ handles' = handles]_vars

\* C11 happens: "/b" was opened while "b" holds a record, and Open failed
C11_Witness ==
    /\ last.op = "Open"
    /\ last.name = SlashPb
    /\ Lookup(fsys, Pb) # Nil
    /\ last.res.err = "ErrNotExist"

\* what key k holds: the record (its Data and Mode), or "nil"
Held(fs, hp, k) == IF fs[k] = Nil THEN "nil" ELSE hp[fs[k]]

\* a call changed the map at key p only: every other key is still there and
\* holds the record it held (the same contents, shared with the same keys)
SameElsewhere(p) ==
    /\ DOMAIN fsys' \ {p} = DOMAIN fsys \ {p}
    /\ \A k \in DOMAIN fsys \ {p} : Held(fsys', heap', k) = Held(fsys, heap, k)
    /\ \A j, k \in DOMAIN fsys \ {p} : (fsys'[j] = fsys'[k]) = (fsys[j] = fsys[k])

\* C12 as stated: WriteFile(p, d, m), of MapFS and of EasyFS alike, leaves under
\* p a record of its own with Data exactly d and Mode exactly m, Stat(p) reports
\* the mode m, and no other key changes
C12_WriteFileReplaces ==
    [][last'.op \in {"WriteFile", "EasyFS.WriteFile"}
       => LET p == StripSlash(last'.name)
          IN  /\ p \in DOMAIN fsys' /\ fsys'[p] # Nil
              /\ heap'[fsys'[p]] = [Data |-> last'.data, Mode |-> last'.arg]
              /\ Stat(fsys', heap', p).err = "nil"
              /\ Stat(fsys', heap', p).Mode = last'.arg
              /\ \A k \in DOMAIN fsys' \ {p} : fsys'[k] # fsys'[p]
              /\ SameElsewhere(p)]_vars

\* C13: Mkdir(p) of a valid path p, of MapFS and of EasyFS alike, returns no
\* error, and afterwards Open(p) succeeds with a directory handle on the new
\* record; its listing is empty when no key lies below p
C13_MkdirOpensAsDirectory ==
    (last.op \in {"Mkdir", "EasyFS.Mkdir"} /\ ValidPath(last.name))
    => /\ last.res.err = "nil"
       /\ Open(fsys, heap, last.name).err = "nil"
       /\ Open(fsys, heap, last.name).kind = "dir"
       /\ Open(fsys, heap, last.name).f = fsys[last.name]
       /\ heap[fsys[last.name]] = [Data |-> <<>>, Mode |-> ModeDir]
       /\ Below(fsys, last.name) = {} => Open(fsys, heap, last.name).entry = <<>>

\* C13 happens: Mkdir("a") with no key below "a", and Open("a") is a directory
\* without entries
C13_Witness ==
    /\ last.op = "Mkdir"
    /\ last.name = Pa
    /\ Below(fsys, Pa) = {}
    /\ DOMAIN fsys # {Pa}
    /\ Open(fsys, heap, Pa).kind = "dir"
    /\ Open(fsys, heap, Pa).entry = <<>>

\* C14: Remove(p) returns no error and changes the map at key p only: p is no
\* key afterwards, every other key (the keys below p too) is still there and
\* holds what it held, every other key that holds a record opens as it did, and
\* when keys lie below p Open(p) succeeds as a synthesized directory
C14_RemoveOnlyKey ==
    [][last'.op = "Remove"
       => LET p == StripSlash(last'.name)
          IN  /\ last'.res.err = "nil"
              /\ p \notin DOMAIN fsys'
              /\ SameElsewhere(p)
              /\ \A k \in DOMAIN fsys \ {p} :
                     fsys[k] # Nil
                     => /\ Open(fsys', heap', k).err = "nil"
                        /\ Open(fsys', heap', k).kind = Open(fsys, heap, k).kind
              /\ Below(fsys', p) # {}
                 => /\ Open(fsys', heap', p).err = "nil"
                    /\ Open(fsys', heap', p).kind = "dir"
                    /\ Open(fsys', heap', p).f = Synth]_vars

\* C14 happens: "a" was removed, it held a record, and "a/b" still holds its
\* record and Open("a") is a synthesized directory that lists "b"
C14_Witness ==
    /\ last.op = "Remove"
    /\ last.name = Pa
    /\ Pa \notin DOMAIN fsys
    /\ Lookup(fsys, Pab) # Nil
    /\ Open(fsys, heap, Pa).f = Synth
    /\ EntryNames(Open(fsys, heap, Pa)) = {Pb}

\* the bytes a Read of n bytes copies when the cursor is before the end
ReadBytes(data, offset, n) == Slice(data, offset, offset + Min(n, Len(data) - offset))

\* C15 as stated: Read(b) on a file handle returns io.EOF exactly when the
\* cursor is at or beyond the length and len(b) > 0, a Read with len(b) = 0 at
\* the end returns 0 bytes and no io.EOF; otherwise it copies
\* min(len(b), length - cursor) bytes from the cursor and advances the cursor
C15_Original ==
    [][(last'.op = "Read" /\ handles[last'.h].kind = "file")
       => LET f == handles[last'.h]
              data == heap[f.f].Data
              n == last'.arg
          IN  /\ (last'.res.err = "EOF") = (f.offset >= Len(data) /\ n > 0)
              /\ f.offset >= Len(data)
                 => /\ last'.res.n = 0
                    /\ handles'[last'.h].offset = f.offset
              /\ f.offset < Len(data)
                 => /\ last'.res.bytes = ReadBytes(data, f.offset, n)
                    /\ last'.res.n = Min(n, Len(data) - f.offset)
                    /\ handles'[last'.h].offset = f.offset + last'.res.n]_vars

\* C15, amended: Read(b) on a file handle returns 0 bytes and io.EOF exactly
\* when the cursor is at or beyond the length, for a buffer of any length, the
\* empty one too, and leaves the cursor; otherwise it returns no error, copies
\* min(len(b), length - cursor) bytes from the cursor and advances the cursor by
\* that count
C15_EOFAtEnd ==
    [][(last'.op = "Read" /\ handles[last'.h].kind = "file")
       => LET f == handles[last'.h]
              data == heap[f.f].Data
              n == last'.arg
          IN  /\ (last'.res.err = "EOF") = (f.offset >= Len(data))
              /\ f.offset >= Len(data)
                 => /\ last'.res.n = 0
                    /\ handles'[last'.h].offset = f.offset
              /\ f.offset < Len(data)
                 => /\ last'.res.err = "nil"
                    /\ last'.res.bytes = ReadBytes(data, f.offset, n)
                    /\ last'.res.n = Min(n, Len(data) - f.offset)
                    /\ handles'[last'.h].offset = f.offset + last'.res.n
              /\ heap' = heap /\ fsys' = fsys]_vars

\* C15 happens: a Read with an empty buffer, the cursor at the end of contents
\* that are not empty, returned io.EOF
C15_Witness ==
    /\ last.op = "Read"
    /\ last.arg = 0
    /\ handles[last.h].kind = "file"
    /\ heap[handles[last.h].f].Data # <<>>
    /\ handles[last.h].offset = Len(heap[handles[last.h].f].Data)
    /\ last.res.err = "EOF"

\* C16: ReadDir(count) on a directory handle with the entries L, offset of them
\* returned before: a call with count > 0 returns the next
\* min(count, remaining) entries of L and signals io.EOF exactly when none
\* remained before the call; a call with count <= 0 returns all that remain and
\* no io.EOF, also when none remain; the offset advances by the batch, L stays,
\* and the batches returned since Open, one after the other, are the first
\* entries of L up to the offset
C16_ReadDirPages ==
    [][last'.op = "ReadDir"
       => LET d == handles[last'.h]
              remaining == Len(d.entry) - d.offset
              count == last'.arg
              r == last'.res
          IN  /\ count > 0 => /\ (r.err = "EOF") = (remaining = 0)
                              /\ Len(r.list) = Min(count, remaining)
              /\ count <= 0 => /\ r.err = "nil"
                               /\ Len(r.list) = remaining
              /\ r.list = SubSeq(d.entry, d.offset + 1, d.offset + Len(r.list))
              /\ handles'[last'.h].offset = d.offset + Len(r.list)
              /\ handles'[last'.h].entry = d.entry
              /\ (scen'.step = 5 /\ scen'.h = last'.h)
                 => scen'.w = SubSeq(d.entry, 1, handles'[last'.h].offset)]_vars

\* C16 happens: of two entries ReadDir(1) returned the first and ReadDir(2) the
\* second, the batch that exhausts the list, without io.EOF
C16_Witness ==
    /\ last.op = "ReadDir"
    /\ last.arg = 2
    /\ last.res.err = "nil"
    /\ Len(last.res.list) = 1
    /\ scen.step = 5
    /\ Len(scen.w) = 2
    /\ scen.w = handles[last.h].entry

----------------------------------------------------------------------------
(* C17 *)

\* C17: Write(b) on a file handle ignores the cursor and overwrites from the
\* start of the record: when b is shorter than the old content the content
\* becomes b followed by the old bytes from position len(b) on, otherwise it
\* becomes exactly b; the call reports len(b) written and no error, and the
\* cursor of the handle is what it was
C17_WriteFromStart ==
    [][last'.op = "Write"
       => LET f == handles[last'.h]
              old == heap[f.f].Data
              b == last'.data
              g == handles'[last'.h]
          IN  /\ heap'[g.f].Data = IF Len(b) < Len(old)
                                   THEN b \o SubSeq(old, Len(b) + 1, Len(old))
                                   ELSE b
              /\ last'.res.n = Len(b)
              /\ last'.res.err = "nil"
              /\ g.kind = "file"
              /\ g.offset = f.offset]_vars

\* a one-byte Write through a handle whose cursor is at 1 of a two-byte
\* content: the first byte is replaced, the second stays, the cursor stays
C17_Witness ==
    /\ last.op = "Write"
    /\ Len(last.data) = 1
    /\ Len(last.res.old) = 2
    /\ last.data[1] # last.res.old[1]
    /\ handles[last.h].offset = 1
    /\ heap[handles[last.h].f].Data = <<last.data[1], last.res.old[2]>>

----------------------------------------------------------------------------
(* C18 *)

\* C18: after any sequence of mutators, a Rename of a path without a record
\* among them, every entry of the list of every open directory handle, and so
\* every entry a ReadDir returns, refers to a record: one of the store or the
\* placeholder of a synthesized directory, never nil
C18_EntriesCarryRecord ==
    /\ \A s \in DOMAIN handles :
          handles[s].kind = "dir"
          => \A i \in 1..Len(handles[s].entry) : handles[s].entry[i].f # Nil
    /\ last.op = "ReadDir"
       => \A i \in 1..Len(last.res.list) : last.res.list[i].f # Nil

----------------------------------------------------------------------------
(* C19 *)

\* C19: whatever Read, ReadAt, Seek and Write calls on a file handle and on
\* other handles of the same record, and whatever mutator calls, have run, the
\* cursor of every open file handle lies between 0 and the length of its
\* record's content; so Read on a file handle never fails on a negative
\* cursor, and a Seek whose target is below 0 or above the length fails with
\* ErrInvalid and leaves the cursor as it was, while any other Seek moves the
\* cursor to its target
C19_CursorInRange ==
    [][/\ \A s \in DOMAIN handles' :
             handles'[s].kind = "file"
             => /\ 0 <= handles'[s].offset
                /\ handles'[s].offset <= Len(heap'[handles'[s].f].Data)
       /\ (last'.op = "Read" /\ handles[last'.h].kind = "file")
          => last'.res.err \in {"nil", "EOF"}
       /\ last'.op = "Seek"
          => LET f == handles[last'.h]
                 len == Len(heap[f.f].Data)
                 offset == last'.data[1]
                 whence == last'.data[2]
                 target == IF whence = 0 THEN offset
                           ELSE IF whence = 1 THEN f.offset + offset
                           ELSE len + offset
             IN  IF target < 0 \/ target > len
                 THEN /\ last'.res.err = "ErrInvalid"
                      /\ handles'[last'.h].offset = f.offset
                 ELSE /\ last'.res.err = "nil"
                      /\ last'.res.n = target
                      /\ handles'[last'.h].offset = target]_vars

\* two handles on one record of three bytes: the cursor of one stands at the
\* end, and its Seek one past the end has failed and left it there
C19_Witness ==
    /\ last.op = "Seek"
    /\ last.res.err = "ErrInvalid"
    /\ last.data = <<1, 1>>
    /\ handles[last.h].kind = "file"
    /\ Len(heap[handles[last.h].f].Data) = 3
    /\ handles[last.h].offset = 3
    /\ \E t \in DOMAIN handles :
          /\ t # last.h
          /\ handles[t].kind = "file"
          /\ handles[t].f = handles[last.h].f
          /\ handles[t].offset = 1

----------------------------------------------------------------------------
(* C20 *)

\* C20: the entry list of a directory handle is fixed when Open returns it: no
\* call that adds, removes, renames or copies keys of the store, and no other
\* call but the handle's own Close, changes the names, their order or their
\* number, nor does a mutator move the handle's offset; every ReadDir returns
\* names of that list from the offset on; and the list a fresh Open returns
\* names the first elements of the keys the store has below the path then
C20_SnapshotAtOpen ==
    [][LET names(list) == [i \in 1..Len(list) |-> list[i].name]
       IN  /\ \A s \in DOMAIN handles :
                (handles[s].kind = "dir" /\ ~(last'.op = "Close" /\ last'.h = s))
                => /\ handles'[s].kind = "dir"
                   /\ names(handles'[s].entry) = names(handles[s].entry)
                   /\ last'.op \in {"Mkdir", "Remove", "Rename", "Copy"}
                      => handles'[s].offset = handles[s].offset
           /\ last'.op = "ReadDir"
              => LET d == handles[last'.h]
                 IN  names(last'.res.list)
                        = SubSeq(names(d.entry), d.offset + 1,
                                 d.offset + Len(last'.res.list))
           /\ (last'.op = "Open" /\ last'.h # 0 /\ handles'[last'.h].kind = "dir")
              => EntryNames(handles'[last'.h])
                    = {FirstElem(last'.name, k) : k \in Below(fsys', last'.name)}]_vars

\* a ReadDir has returned both entries of a handle on the root although the
\* store has since lost one of the two keys and a fresh Open would list one
C20_Witness ==
    /\ last.op = "ReadDir"
    /\ Len(last.res.list) = 2
    /\ handles[last.h].path = Root
    /\ Cardinality(Below(fsys, Root)) = 1
    /\ Len(Open(fsys, heap, Root).entry) = 1
    /\ \E i \in 1..2 : last.res.list[i].name \notin DOMAIN fsys

====
